---- MODULE Spec2Model ----
(***************************************************************************)
(* Model of the IST8310 magnetometer driver,                               *)
(* src/main/drivers/compass_ist8310.c: ist8310Detect, ist8310Init,         *)
(* ist8310Read, ist8310ConfigureDataReadyInterruptHandling and the         *)
(* data-ready interrupt handler ist8310_extiHandler.                       *)
(*                                                                         *)
(* The main thread runs one driver call at a time; every call into the     *)
(* platform (i2cRead, i2cWrite, delay, IOGetByTag, IORead, EXTIxxx) is one *)
(* step, so that the interrupt handler can run between any two of them.    *)
(* opTrace is the sequence of platform calls issued by the current (or the *)
(* last) driver call.                                                      *)
(***************************************************************************)
EXTENDS Integers, Sequences, FiniteSets, TLC

VARIABLES
    build,          \* the build flags (#ifdef's) of this binary
    ist8310Config,  \* static const ist8310Config_t *ist8310Config (0 = NULL)
    intIO,          \* static IO_t intIO (0 = never assigned)
    exti,           \* the EXTI controller's state for the data-ready line
    mag,            \* the caller's mag_t: its init and read slots
    magData,        \* the caller's output sample (int16_t[3])
    pc,             \* the statement the main thread is at
    ix,             \* inside ist8310Init: the index of the next statement
    readFor,        \* who called ist8310Read: "caller" or "init"
    ack,            \* local: bool ack (ist8310Detect, ist8310Read); kept, as
    sig,            \* uint8_t sig of ist8310Detect is, until the next call starts
    buf,            \* local: uint8_t buf[6] of ist8310Read (<<>> = not in scope)
    status,         \* local: uint8_t status of the interrupt configuration;
                    \* kept until the next ist8310Init starts
    magADC,         \* local: int16_t magADC[3] of ist8310Init (<<>> = unset)
    opTrace,        \* platform calls issued by the current / last driver call
    lastOp,         \* the driver call in progress or last completed
    ret,            \* what that call returned: "pending", "void", "true", "false"
    wnack,          \* some i2cWrite of that call was not acknowledged
    isr,            \* "none", or "running" while ist8310_extiHandler executes
    dbg,            \* the handler's debug statics and debug[0]
    cfgArg,         \* parameter ist8310ConfigToUse of the current / last detect
    hist            \* history: what the calls so far have done (see HistNext)

vars == << build, ist8310Config, intIO, exti, mag, magData, pc, ix, readFor,
           ack, sig, buf, status, magADC, opTrace, lastOp, ret, wnack, isr, dbg,
           cfgArg, hist >>

(***************************************************************************)
(* Program constants.                                                      *)
(***************************************************************************)
IST8310_ADDRESS == 12
IST8310_REG_DATA == 3
IST8310_REG_WHOAMI == 0
IST8310_REG_CNTRL1 == 10
IST8310_REG_AVERAGE == 65
IST8310_ODR_SINGLE == 1
IST8310_CHIP_ID == 16
IST8310_AVG_16 == 36
LSB2FSV == 3
SettleDelay == 5
WhoAmILen == 1
DataLen == 6

(***************************************************************************)
(* Bounds and input sets.                                                  *)
(***************************************************************************)
\* millis() takes the values 0..MaxTime in a debug build.
MaxTime == 2

\* The configurations a caller passes to ist8310Detect, by address: 1 names no
\* interrupt line (intTag = 0), 2 names line 21.
ConfigPtrs == {1, 2}
IntTagOf(cfg) == IF cfg = 2 THEN 21 ELSE 0

\* The identity bytes the bus returns for WHOAMI.
IdBytes == {0, 16, 17, 255}

\* The data bursts the bus returns in Spec: the scenario of the specification,
\* and one whose words are -32768, -1 and 10923.
DataBufs == { <<16, 0, 32, 0, 48, 0>>, <<0, 128, 255, 255, 171, 42>> }

\* The data bursts of SpecDecode: every combination of these words, as
\* <<low byte, high byte>>: 16, -1, 10922, 10923, -10922, -10923, -32768, 32767;
\* and the bursts of Spec.
DecodeWords == { <<16, 0>>, <<255, 255>>, <<170, 42>>, <<171, 42>>, <<86, 213>>,
                 <<85, 213>>, <<0, 128>>, <<255, 127>> }
WideBufs == { x \o y \o z : x \in DecodeWords, y \in DecodeWords, z \in DecodeWords }
            \cup DataBufs

\* The builds: USE_MAG_DATA_READY_SIGNAL, ENSURE_MAG_DATA_READY_IS_HIGH,
\* DEBUG_MAG_DATA_READY_INTERRUPT. The last two are read only inside code that
\* the first one compiles.
Builds ==
    { [signal |-> FALSE, ensureHigh |-> FALSE, debug |-> FALSE] } \cup
    { [signal |-> TRUE, ensureHigh |-> e, debug |-> d] : e \in BOOLEAN, d \in BOOLEAN }

\* What a mag_t holds before the driver is probed: nothing, or what another
\* compass driver's detect left there.
EmptyMag == [init |-> "NULL", read |-> "NULL"]
OtherMag == [init |-> "otherInit", read |-> "otherRead"]
ThisMag == [init |-> "ist8310Init", read |-> "ist8310Read"]

BoolStr(b) == IF b THEN "true" ELSE "false"

(***************************************************************************)
(* Platform calls, as they appear in opTrace.                              *)
(***************************************************************************)
Ev(op, dev, a, b, s) == [op |-> op, dev |-> dev, a |-> a, b |-> b, s |-> s]
\* Reads addressed to 0x0D, the address of the CAD0 = VDD strapping.
EvI2cRead_Addr0D(reg, len) == Ev("i2cRead", 13, reg, len, "")

EvI2cRead(reg, len) == Ev("i2cRead", IST8310_ADDRESS, reg, len, "")
EvI2cWrite(reg, val) == Ev("i2cWrite", IST8310_ADDRESS, reg, val, "")
EvDelay(n) == Ev("delay", 0, n, 0, "")
EvIOGetByTag(tag) == Ev("IOGetByTag", 0, tag, 0, "")
EvIORead(io) == Ev("IORead", 0, io, 0, "")
EvEXTIHandlerInit == Ev("EXTIHandlerInit", 0, 0, 0, "ist8310_extiHandler")
\* An EXTI configuration for the falling edge (DRDY taken as active low).
EvEXTIConfig_Falling(io) ==
    Ev("EXTIConfig", 0, io, 0, "NVIC_PRIO_MAG_INT_EXTI,EXTI_Trigger_Falling")

EvEXTIConfig(io) == Ev("EXTIConfig", 0, io, 0, "NVIC_PRIO_MAG_INT_EXTI,EXTI_Trigger_Rising")
EvEXTIEnable(io) == Ev("EXTIEnable", 0, io, 1, "")

\* IOGetByTag: the controller handle of a line tag.
IOGetByTag(tag) == 1000 + tag

(***************************************************************************)
(* ist8310Detect                                                           *)
(***************************************************************************)
\* A detect that trusts the identity byte without looking at the acknowledge.
DetectOk_IgnoresAck(a, s) == s = IST8310_CHIP_ID

\* line 166: if (!ack || (sig != IST8310_CHIP_ID)) return false;
DetectOk(a, s) == a /\ s = IST8310_CHIP_ID

\* A detect that fills the slots before it checks the chip.
DetectMag_BeforeCheck(m, ok) == ThisMag

\* A detect that empties the slots when the chip is not found.
DetectMag_ClearsOnFail(m, ok) == IF ok THEN ThisMag ELSE EmptyMag

\* lines 169-170: the slots are written after the check only.
DetectMag(m, ok) == IF ok THEN ThisMag ELSE m

\* A detect that never stores the configuration it is given.
ConfigAtEntry_NotStored(old, arg) == old

\* line 163: ist8310Config = ist8310ConfigToUse, the first statement of detect.
ConfigAtEntry(old, arg) == arg

\* lines 158-163: entry; the configuration is stored before the bus is read.
CallDetect ==
    /\ pc = "idle" /\ isr = "none"
    /\ \E cfg \in ConfigPtrs :
         cfgArg' = cfg /\ ist8310Config' = ConfigAtEntry(ist8310Config, cfg)
    /\ ack' = FALSE /\ sig' = 0
    /\ opTrace' = << >> /\ lastOp' = "detect" /\ ret' = "pending" /\ wnack' = FALSE
    /\ pc' = "det_i2c"
    /\ UNCHANGED << build, intIO, exti, mag, magData, ix, readFor, buf, status,
                    magADC, isr, dbg >>

\* line 165: the one-byte read of WHOAMI. With no acknowledge the byte is
\* whatever the bus driver left in sig.
DetectI2c ==
    /\ pc = "det_i2c" /\ isr = "none"
    /\ \E a \in BOOLEAN, s \in IdBytes : ack' = a /\ sig' = s
    /\ opTrace' = Append(opTrace, EvI2cRead(IST8310_REG_WHOAMI, WhoAmILen))
    /\ pc' = "det_chk"
    /\ UNCHANGED << cfgArg, build, ist8310Config, intIO, exti, mag, magData, ix, readFor,
                    buf, status, magADC, lastOp, ret, wnack, isr, dbg >>

\* lines 166-172
DetectCheck ==
    /\ pc = "det_chk" /\ isr = "none"
    /\ mag' = DetectMag(mag, DetectOk(ack, sig))
    /\ ret' = BoolStr(DetectOk(ack, sig))
    /\ pc' = "idle"
    /\ UNCHANGED << cfgArg, build, ist8310Config, intIO, exti, magData, ix, readFor, ack, sig,
                    buf, status, magADC, opTrace, lastOp, wnack, isr, dbg >>

(***************************************************************************)
(* ist8310Read                                                             *)
(***************************************************************************)
\* A conversion that saturates instead of wrapping.
ToInt16_Saturating(v) == IF v > 32767 THEN 32767 ELSE IF v < -32768 THEN -32768 ELSE v

\* (int16_t) of an int, as the compilers of the targets define it: the value
\* modulo 2^16, in -32768..32767.
ToInt16(v) == LET m == v % 65536 IN IF m >= 32768 THEN m - 65536 ELSE m

\* (int16_t)(buf[hi] << 8 | buf[lo])
Raw16(lo, hi) == ToInt16(hi * 256 + lo)

\* A decoding that leaves out the negation of the first axis.
AxisX_NotNegated(b) == ToInt16(Raw16(b[1], b[2]) * LSB2FSV)

\* lines 200-202: each product is computed in int and stored in an int16_t.
AxisX(b) == ToInt16((-Raw16(b[1], b[2])) * LSB2FSV)
AxisY(b) == ToInt16(Raw16(b[3], b[4]) * LSB2FSV)
AxisZ(b) == ToInt16(Raw16(b[5], b[6]) * LSB2FSV)
DecodeSample(b) == << AxisX(b), AxisY(b), AxisZ(b) >>

\* A read that decodes before it looks at the acknowledge.
ReadStore_IgnoresAck(old, a, b) == DecodeSample(b)

\* lines 195-197: the sample is written only when the burst was acknowledged.
ReadStore(old, a, b) == IF a THEN DecodeSample(b) ELSE old

\* A re-arm that writes the mode to CNTRL2 (0x0B).
RearmWrite_Cntrl2 == EvI2cWrite(11, IST8310_ODR_SINGLE)

\* line 203: the re-arm of single-measurement mode.
RearmWrite == EvI2cWrite(IST8310_REG_CNTRL1, IST8310_ODR_SINGLE)

\* A read that returns what its re-arm write returned.
ReadRearmResult_OfWrite(wa) == wa

\* line 204: the re-arm write's outcome is not what ist8310Read returns.
ReadRearmResult(wa) == TRUE

\* The caller calls read through the capability record.
CallRead ==
    /\ pc = "idle" /\ isr = "none"
    /\ mag.read = "ist8310Read"
    /\ readFor' = "caller"
    /\ ack' = FALSE /\ buf' = << >>
    /\ opTrace' = << >> /\ lastOp' = "read" /\ ret' = "pending" /\ wnack' = FALSE
    /\ pc' = "read_i2c"
    /\ UNCHANGED << cfgArg, build, ist8310Config, intIO, exti, mag, magData, ix, sig,
                    status, magADC, isr, dbg >>

\* line 194: the 6-byte burst read. buf is uninitialised before it, and with no
\* acknowledge holds whatever the bus driver left there.
ReadI2c(bufs) ==
    /\ pc = "read_i2c" /\ isr = "none"
    /\ \E a \in BOOLEAN, b \in bufs : ack' = a /\ buf' = b
    /\ opTrace' = Append(opTrace, EvI2cRead(IST8310_REG_DATA, DataLen))
    /\ pc' = "read_chk"
    /\ UNCHANGED << cfgArg, build, ist8310Config, intIO, exti, mag, magData, ix, readFor,
                    sig, status, magADC, lastOp, ret, wnack, isr, dbg >>

\* A read without the early return: it goes on to the re-arm write after a
\* burst that was not acknowledged.
ReadCheck_RearmsOnNack ==
    /\ pc = "read_chk" /\ isr = "none"
    /\ IF readFor = "caller"
         THEN /\ magData' = ReadStore(magData, ack, buf)
              /\ magADC' = magADC
         ELSE /\ magADC' = ReadStore(magADC, ack, buf)
              /\ magData' = magData
    /\ pc' = "read_rearm"
    /\ UNCHANGED << cfgArg, build, ist8310Config, intIO, exti, mag, readFor, ack, sig,
                    status, opTrace, lastOp, wnack, isr, dbg, ret, ix, buf >>

\* A read that always decodes into the caller's sample, also when ist8310Init
\* calls it for the discard read.
ReadCheck_IntoCallerSample ==
    /\ pc = "read_chk" /\ isr = "none"
    /\ magData' = ReadStore(magData, ack, buf)
    /\ magADC' = magADC
    /\ IF ack
         THEN /\ pc' = "read_rearm"
              /\ UNCHANGED << ret, ix, buf >>
         ELSE /\ buf' = << >>
              /\ IF readFor = "caller"
                   THEN pc' = "idle" /\ ret' = "false" /\ ix' = ix
                   ELSE pc' = "init" /\ ret' = ret /\ ix' = ix + 1
    /\ UNCHANGED << cfgArg, build, ist8310Config, intIO, exti, mag, readFor, ack, sig,
                    status, opTrace, lastOp, wnack, isr, dbg >>

\* lines 195-202: return false, or decode into the caller's array.
ReadCheck ==
    /\ pc = "read_chk" /\ isr = "none"
    /\ IF readFor = "caller"
         THEN /\ magData' = ReadStore(magData, ack, buf)
              /\ magADC' = magADC
         ELSE /\ magADC' = ReadStore(magADC, ack, buf)
              /\ magData' = magData
    /\ IF ack
         THEN /\ pc' = "read_rearm"
              /\ UNCHANGED << ret, ix, buf >>
         ELSE /\ buf' = << >>
              /\ IF readFor = "caller"
                   THEN pc' = "idle" /\ ret' = "false" /\ ix' = ix
                   ELSE pc' = "init" /\ ret' = ret /\ ix' = ix + 1
    /\ UNCHANGED << cfgArg, build, ist8310Config, intIO, exti, mag, readFor, ack, sig,
                    status, opTrace, lastOp, wnack, isr, dbg >>

\* lines 203-204: the re-arm write, then return true.
ReadRearm ==
    /\ pc = "read_rearm" /\ isr = "none"
    /\ \E wa \in BOOLEAN :
         /\ wnack' = (wnack \/ ~wa)
         /\ IF readFor = "caller"
              THEN pc' = "idle" /\ ret' = BoolStr(ReadRearmResult(wa)) /\ ix' = ix
              ELSE pc' = "init" /\ ret' = ret /\ ix' = ix + 1
    /\ opTrace' = Append(opTrace, RearmWrite)
    /\ buf' = << >>
    /\ UNCHANGED << cfgArg, build, ist8310Config, intIO, exti, mag, magData, readFor, ack,
                    sig, status, magADC, lastOp, isr, dbg >>

(***************************************************************************)
(* ist8310ConfigureDataReadyInterruptHandling                              *)
(***************************************************************************)
\* A configuration step that does not look at intTag.
IrqWanted_AnyTag(b, cfg) == b.signal

\* lines 139-143: compiled in, and the stored configuration names a line.
IrqWanted(b, cfg) == b.signal /\ IntTagOf(cfg) # 0

\* A level check that accepts a low line.
LineOk_Always(st) == TRUE

\* lines 146-149: if (!status) return;
LineOk(st) == st # 0

\* The statement after IOGetByTag: the level check when it is compiled in.
AfterGetByTag(b) == IF b.ensureHigh THEN "irq_read" ELSE "irq_hinit"

\* lines 141-144: return at once, or look the line up.
IrqEntry ==
    /\ pc = "irq_entry" /\ isr = "none"
    /\ IF IrqWanted(build, ist8310Config)
         THEN /\ intIO' = IOGetByTag(IntTagOf(ist8310Config))
              /\ opTrace' = Append(opTrace, EvIOGetByTag(IntTagOf(ist8310Config)))
              /\ pc' = AfterGetByTag(build)
              /\ ix' = ix
         ELSE /\ pc' = "init" /\ ix' = ix + 1
              /\ UNCHANGED << intIO, opTrace >>
    /\ UNCHANGED << cfgArg, build, ist8310Config, exti, mag, magData, readFor, ack, sig,
                    buf, status, magADC, lastOp, ret, wnack, isr, dbg >>

\* lines 146-149: ENSURE_MAG_DATA_READY_IS_HIGH
IrqReadLine ==
    /\ pc = "irq_read" /\ isr = "none"
    /\ \E level \in {0, 1} :
         /\ status' = level
         /\ IF LineOk(level)
              THEN pc' = "irq_hinit" /\ ix' = ix
              ELSE pc' = "init" /\ ix' = ix + 1
    /\ opTrace' = Append(opTrace, EvIORead(intIO))
    /\ UNCHANGED << cfgArg, build, ist8310Config, intIO, exti, mag, magData, readFor, ack,
                    sig, buf, magADC, lastOp, ret, wnack, isr, dbg >>

\* line 152
IrqHandlerInit ==
    /\ pc = "irq_hinit" /\ isr = "none"
    /\ exti' = [exti EXCEPT !.handler = TRUE]
    /\ opTrace' = Append(opTrace, EvEXTIHandlerInit)
    /\ pc' = "irq_cfg"
    /\ UNCHANGED << cfgArg, build, ist8310Config, intIO, mag, magData, ix, readFor, ack, sig,
                    buf, status, magADC, lastOp, ret, wnack, isr, dbg >>

\* line 153
IrqConfig ==
    /\ pc = "irq_cfg" /\ isr = "none"
    /\ exti' = [exti EXCEPT !.configured = TRUE]
    /\ opTrace' = Append(opTrace, EvEXTIConfig(intIO))
    /\ pc' = "irq_en"
    /\ UNCHANGED << cfgArg, build, ist8310Config, intIO, mag, magData, ix, readFor, ack, sig,
                    buf, status, magADC, lastOp, ret, wnack, isr, dbg >>

\* line 154, and the return to ist8310Init
IrqEnable ==
    /\ pc = "irq_en" /\ isr = "none"
    /\ exti' = [exti EXCEPT !.enabled = TRUE]
    /\ opTrace' = Append(opTrace, EvEXTIEnable(intIO))
    /\ pc' = "init" /\ ix' = ix + 1
    /\ UNCHANGED << cfgArg, build, ist8310Config, intIO, mag, magData, readFor, ack, sig,
                    buf, status, magADC, lastOp, ret, wnack, isr, dbg >>

(***************************************************************************)
(* ist8310Init                                                             *)
(***************************************************************************)
Stmt(op, a, b) == [op |-> op, a |-> a, b |-> b]

\* An init that drops the settling delay before the final re-arm write.
InitProgram_NoThirdDelay ==
    << Stmt("i2cWrite", IST8310_REG_CNTRL1, IST8310_ODR_SINGLE),
       Stmt("delay", SettleDelay, 0),
       Stmt("i2cWrite", IST8310_REG_AVERAGE, IST8310_AVG_16),
       Stmt("delay", SettleDelay, 0),
       Stmt("ist8310Read", 0, 0),
       Stmt("i2cWrite", IST8310_REG_CNTRL1, IST8310_ODR_SINGLE),
       Stmt("ist8310ConfigureDataReadyInterruptHandling", 0, 0) >>

\* An init that ends without the final re-arm write.
InitProgram_NoFinalRearm ==
    << Stmt("i2cWrite", IST8310_REG_CNTRL1, IST8310_ODR_SINGLE),
       Stmt("delay", SettleDelay, 0),
       Stmt("i2cWrite", IST8310_REG_AVERAGE, IST8310_AVG_16),
       Stmt("delay", SettleDelay, 0),
       Stmt("ist8310Read", 0, 0),
       Stmt("delay", SettleDelay, 0),
       Stmt("ist8310ConfigureDataReadyInterruptHandling", 0, 0) >>

\* lines 179-187: the statements of ist8310Init, in order.
InitProgram ==
    << Stmt("i2cWrite", IST8310_REG_CNTRL1, IST8310_ODR_SINGLE),
       Stmt("delay", SettleDelay, 0),
       Stmt("i2cWrite", IST8310_REG_AVERAGE, IST8310_AVG_16),
       Stmt("delay", SettleDelay, 0),
       Stmt("ist8310Read", 0, 0),
       Stmt("delay", SettleDelay, 0),
       Stmt("i2cWrite", IST8310_REG_CNTRL1, IST8310_ODR_SINGLE),
       Stmt("ist8310ConfigureDataReadyInterruptHandling", 0, 0) >>

AtInit(op) == pc = "init" /\ isr = "none" /\ ix <= Len(InitProgram) /\ InitProgram[ix].op = op

\* The caller calls init through the capability record. magADC is uninitialised.
CallInit ==
    /\ pc = "idle" /\ isr = "none"
    /\ mag.init = "ist8310Init"
    /\ magADC' = << >> /\ status' = 0 /\ ack' = FALSE
    /\ opTrace' = << >> /\ lastOp' = "init" /\ ret' = "pending" /\ wnack' = FALSE
    /\ pc' = "init" /\ ix' = 1
    /\ UNCHANGED << cfgArg, build, ist8310Config, intIO, exti, mag, magData, readFor, sig,
                    buf, isr, dbg >>

\* lines 179, 181, 185: a register write whose result is dropped.
InitWrite ==
    /\ AtInit("i2cWrite")
    /\ \E wa \in BOOLEAN : wnack' = (wnack \/ ~wa)
    /\ opTrace' = Append(opTrace, EvI2cWrite(InitProgram[ix].a, InitProgram[ix].b))
    /\ ix' = ix + 1
    /\ UNCHANGED << cfgArg, build, ist8310Config, intIO, exti, mag, magData, pc, readFor, ack,
                    sig, buf, status, magADC, lastOp, ret, isr, dbg >>

\* lines 180, 182, 184
InitDelay ==
    /\ AtInit("delay")
    /\ opTrace' = Append(opTrace, EvDelay(InitProgram[ix].a))
    /\ ix' = ix + 1
    /\ UNCHANGED << cfgArg, build, ist8310Config, intIO, exti, mag, magData, pc, readFor, ack,
                    sig, buf, status, magADC, lastOp, ret, wnack, isr, dbg >>

\* line 183: ist8310Read(magADC); its result is dropped.
InitCallRead ==
    /\ AtInit("ist8310Read")
    /\ readFor' = "init"
    /\ ack' = FALSE /\ buf' = << >>
    /\ pc' = "read_i2c"
    /\ UNCHANGED << cfgArg, build, ist8310Config, intIO, exti, mag, magData, ix, sig, status,
                    magADC, opTrace, lastOp, ret, wnack, isr, dbg >>

\* line 187
InitCallIrq ==
    /\ AtInit("ist8310ConfigureDataReadyInterruptHandling")
    /\ pc' = "irq_entry"
    /\ UNCHANGED << cfgArg, build, ist8310Config, intIO, exti, mag, magData, ix, readFor, ack,
                    sig, buf, status, magADC, opTrace, lastOp, ret, wnack, isr, dbg >>

\* An init that forgets the configuration when it is done.
InitReturn_ClearsConfig ==
    /\ pc = "init" /\ isr = "none" /\ ix > Len(InitProgram)
    /\ pc' = "idle" /\ ix' = 0 /\ ret' = "void"
    /\ magADC' = << >> /\ readFor' = "caller"
    /\ ist8310Config' = 0
    /\ UNCHANGED << cfgArg, build, intIO, exti, mag, magData, ack, sig, buf,
                    status, opTrace, lastOp, wnack, isr, dbg >>

\* line 188: the end of ist8310Init; its locals go out of scope.
InitReturn ==
    /\ pc = "init" /\ isr = "none" /\ ix > Len(InitProgram)
    /\ pc' = "idle" /\ ix' = 0 /\ ret' = "void"
    /\ magADC' = << >> /\ readFor' = "caller"
    /\ UNCHANGED << cfgArg, build, ist8310Config, intIO, exti, mag, magData, ack, sig, buf,
                    status, opTrace, lastOp, wnack, isr, dbg >>

(***************************************************************************)
(* ist8310_extiHandler                                                     *)
(***************************************************************************)
\* A handler whose debug code is compiled into every build.
ExtiHandlerDbg_NoIfdef(b, d, now) ==
    [lastCalledAt |-> now, callDelta |-> now - d.lastCalledAt,
     debug0 |-> now - d.lastCalledAt]

\* lines 119-133: nothing, unless DEBUG_MAG_DATA_READY_INTERRUPT is defined.
\* now is what millis() returns.
ExtiHandlerDbg(b, d, now) ==
    IF b.debug
      THEN [lastCalledAt |-> now, callDelta |-> now - d.lastCalledAt,
            debug0 |-> now - d.lastCalledAt]
      ELSE d

\* A rising edge of the data-ready line, once EXTIEnable has been called.
ExtiFire ==
    /\ isr = "none" /\ exti.enabled
    /\ isr' = "running"
    /\ UNCHANGED << cfgArg, build, ist8310Config, intIO, exti, mag, magData, pc, ix, readFor,
                    ack, sig, buf, status, magADC, opTrace, lastOp, ret, wnack, dbg >>

\* lines 117-134
ExtiHandler ==
    /\ isr = "running"
    /\ \E now \in dbg.lastCalledAt .. MaxTime : dbg' = ExtiHandlerDbg(build, dbg, now)
    /\ isr' = "none"
    /\ UNCHANGED << cfgArg, build, ist8310Config, intIO, exti, mag, magData, pc, ix, readFor,
                    ack, sig, buf, status, magADC, opTrace, lastOp, ret, wnack >>

(***************************************************************************)
(* The driver as the sensor subsystem uses it.                             *)
(***************************************************************************)
(***************************************************************************)
(* History. It records, and no action reads it:                            *)
(*   lastBus       the most recent bus transaction, of whatever call;      *)
(*   pendingRearm  a data burst was acknowledged and no write of           *)
(*                 single-measurement mode to CNTRL1 has followed it yet;  *)
(*   detected      some ist8310Detect has returned true;                   *)
(*   cfgBefore     ist8310Config as it was when the current / last call    *)
(*                 was entered.                                            *)
(***************************************************************************)
NoEv == Ev("none", 0, 0, 0, "")
Issued == Len(opTrace') = Len(opTrace) + 1
IssuedEv == opTrace'[Len(opTrace')]

HistNext ==
    hist' =
      [ lastBus |->
            IF Issued /\ IssuedEv.op \in {"i2cRead", "i2cWrite"}
              THEN IssuedEv ELSE hist.lastBus,
        pendingRearm |->
            IF Issued /\ IssuedEv.op = "i2cRead" /\ IssuedEv.a = IST8310_REG_DATA
              THEN (hist.pendingRearm \/ ack')
              ELSE IF Issued /\ IssuedEv.op = "i2cWrite"
                        /\ IssuedEv.a = IST8310_REG_CNTRL1
                        /\ IssuedEv.b = IST8310_ODR_SINGLE
                     THEN FALSE ELSE hist.pendingRearm,
        detected |->
            (hist.detected \/ (pc = "det_chk" /\ pc' = "idle" /\ ret' = "true")),
        cfgBefore |->
            IF pc = "idle" /\ pc' # "idle" THEN ist8310Config ELSE hist.cfgBefore ]

Step(A) == A /\ HistNext

Init ==
    /\ build \in Builds
    /\ ist8310Config = 0
    /\ intIO = 0
    /\ exti = [handler |-> FALSE, configured |-> FALSE, enabled |-> FALSE]
    /\ mag \in {EmptyMag, OtherMag}
    /\ magData = << 0, 0, 0 >>
    /\ pc = "idle" /\ ix = 0 /\ readFor = "caller"
    /\ ack = FALSE /\ sig = 0 /\ buf = << >> /\ status = 0 /\ magADC = << >>
    /\ opTrace = << >> /\ lastOp = "none" /\ ret = "void" /\ wnack = FALSE
    /\ isr = "none"
    /\ dbg = [lastCalledAt |-> 0, callDelta |-> 0, debug0 |-> 0]
    /\ cfgArg = 0
    /\ hist = [lastBus |-> NoEv, pendingRearm |-> FALSE, detected |-> FALSE,
               cfgBefore |-> 0]

Next ==
    \/ Step(CallDetect) \/ Step(DetectI2c) \/ Step(DetectCheck)
    \/ Step(CallInit) \/ Step(InitWrite) \/ Step(InitDelay) \/ Step(InitCallRead)
    \/ Step(InitCallIrq) \/ Step(InitReturn)
    \/ Step(CallRead) \/ Step(ReadI2c(DataBufs)) \/ Step(ReadCheck) \/ Step(ReadRearm)
    \/ Step(IrqEntry) \/ Step(IrqReadLine) \/ Step(IrqHandlerInit) \/ Step(IrqConfig)
    \/ Step(IrqEnable)
    \/ Step(ExtiFire) \/ Step(ExtiHandler)

Spec == Init /\ [][Next]_vars

(***************************************************************************)
(* The decoding of ist8310Read over a wide set of data bursts: the driver  *)
(* right after a successful ist8310Detect, then read calls only.           *)
(***************************************************************************)
InitDecode ==
    /\ build = [signal |-> TRUE, ensureHigh |-> TRUE, debug |-> FALSE]
    /\ ist8310Config = 2
    /\ intIO = 0
    /\ exti = [handler |-> FALSE, configured |-> FALSE, enabled |-> FALSE]
    /\ mag = ThisMag
    /\ magData = << 0, 0, 0 >>
    /\ pc = "idle" /\ ix = 0 /\ readFor = "caller"
    /\ ack = TRUE /\ sig = IST8310_CHIP_ID /\ buf = << >> /\ status = 0
    /\ magADC = << >>
    /\ opTrace = << EvI2cRead(IST8310_REG_WHOAMI, WhoAmILen) >>
    /\ lastOp = "detect" /\ ret = "true" /\ wnack = FALSE
    /\ isr = "none"
    /\ dbg = [lastCalledAt |-> 0, callDelta |-> 0, debug0 |-> 0]
    /\ cfgArg = 2
    /\ hist = [lastBus |-> EvI2cRead(IST8310_REG_WHOAMI, WhoAmILen),
               pendingRearm |-> FALSE, detected |-> TRUE, cfgBefore |-> 0]

NextDecode ==
    Step(CallRead) \/ Step(ReadI2c(WideBufs)) \/ Step(ReadCheck) \/ Step(ReadRearm)

SpecDecode == InitDecode /\ [][NextDecode]_vars

(***************************************************************************)
(* Properties.                                                             *)
(***************************************************************************)
Done(op) == lastOp = op /\ pc = "idle" /\ isr = "none"

BusOps == {"i2cRead", "i2cWrite"}
IsBus(e) == e.op \in BusOps
IsBusOrDelay(e) == e.op \in BusOps \cup {"delay"}
IsIrqCall(e) == e.op \in {"IOGetByTag", "IORead", "EXTIHandlerInit", "EXTIConfig", "EXTIEnable"}
IsExtiCall(e) == e.op \in {"EXTIHandlerInit", "EXTIConfig", "EXTIEnable"}
Has(trace, P(_)) == \E i \in 1..Len(trace) : P(trace[i])

WriteMode == EvI2cWrite(10, 1)
WriteAvg == EvI2cWrite(65, 36)
ReadData == EvI2cRead(3, 6)
ReadWhoAmI == EvI2cRead(0, 1)
Settle == EvDelay(5)

\* C1: ist8310Detect returns true exactly when the WHOAMI read was acknowledged
\* and the byte read is 0x10; any other byte, and any NACK whatever the byte,
\* give false.
C1_DetectIffAckAndChipId ==
    Done("detect") =>
        /\ ret \in {"true", "false"}
        /\ ret = "true" <=> (ack /\ sig = 16)
        /\ opTrace = << ReadWhoAmI >>

\* A detect whose read was not acknowledged although the byte left in sig is the
\* chip's identity, and which returned false.
C1_Witness == Done("detect") /\ ~ack /\ sig = 16 /\ ret = "false"

\* C2: a detect that returns true leaves this driver's functions in both slots;
\* one that returns false leaves both slots as they were before the call. (No
\* step of a detect call other than its successful return changes the record.)
C2_DetectSlots ==
    [][ lastOp' = "detect" =>
          IF pc = "det_chk" /\ pc' = "idle" /\ ret' = "true"
            THEN mag'.init = "ist8310Init" /\ mag'.read = "ist8310Read"
            ELSE mag' = mag ]_vars

\* A failed detect on a record that holds another driver's functions.
C2_Witness == Done("detect") /\ ret = "false" /\ mag = OtherMag

\* The bus transactions and delays of an init whose discard read was (not)
\* acknowledged.
InitSeqClaimed == << WriteMode, Settle, WriteAvg, Settle, ReadData, Settle, WriteMode >>
InitSeqAcked ==
    << WriteMode, Settle, WriteAvg, Settle, ReadData, WriteMode, Settle, WriteMode >>

\* C3 as claimed: every init issues exactly mode-write, averaging-write, one
\* data read, mode-write, with three delays, whatever the bus outcomes.
C3_Original == Done("init") => SelectSeq(opTrace, IsBusOrDelay) = InitSeqClaimed

\* C3: ist8310Init issues, in order: the mode write, a delay of 5, the averaging
\* write, a delay of 5, one 6-byte data read, then - only when that read was
\* acknowledged - the re-arm write of the discard read itself, a delay of 5 and
\* the final mode write; nothing else goes to the bus, and the outcome of the
\* register writes changes nothing.
C3_InitSequence ==
    Done("init") =>
        SelectSeq(opTrace, IsBusOrDelay) = IF ack THEN InitSeqAcked ELSE InitSeqClaimed

\* A completed init whose discard read was acknowledged and one of whose writes
\* was not.
C3_Witness == Done("init") /\ ack /\ wnack /\ ret = "void"

\* C4: a read whose burst is not acknowledged returns false, and no step of it
\* changes the caller's sample.
C4_ReadNackKeepsSample ==
    [][ lastOp' = "read" =>
          /\ (pc = "read_chk" /\ ~ack /\ pc' # pc) =>
                (pc' = "idle" /\ ret' = "false" /\ magData' = magData)
          /\ (magData' # magData) => (pc = "read_chk" /\ ack) ]_vars

\* A read that failed after an earlier read had stored the sample -48, 96, 144.
C4_Witness == Done("read") /\ ~ack /\ ret = "false" /\ magData = << -48, 96, 144 >>

\* The little-endian signed 16-bit value of a byte pair.
LE16(lo, hi) == LET u == hi * 256 + lo IN IF u >= 32768 THEN u - 65536 ELSE u
ExactProductRange == -10922 .. 10922
AfterDecode == pc = "read_rearm" /\ readFor = "caller"

\* C5 as claimed: for every acknowledged burst the stored sample is exactly
\* X = -LE16(B[0..1])*3, Y = LE16(B[2..3])*3, Z = LE16(B[4..5])*3.
C5_Original ==
    AfterDecode =>
        magData = << (-LE16(buf[1], buf[2])) * 3, LE16(buf[3], buf[4]) * 3,
                     LE16(buf[5], buf[6]) * 3 >>

\* C5: for every acknowledged burst, each axis whose raw word lies in
\* -10922..10922 is stored exactly: X = -LE16(B[0..1])*3, Y = LE16(B[2..3])*3,
\* Z = LE16(B[4..5])*3; every stored axis is a signed 16-bit value, so for a
\* raw word outside that range the stored axis is not the product.
C5_DecodeExactInRange ==
    AfterDecode =>
        /\ \A i \in 1..3 : magData[i] \in -32768 .. 32767
        /\ magData[1] = (-LE16(buf[1], buf[2])) * 3
              <=> LE16(buf[1], buf[2]) \in ExactProductRange
        /\ magData[2] = LE16(buf[3], buf[4]) * 3
              <=> LE16(buf[3], buf[4]) \in ExactProductRange
        /\ magData[3] = LE16(buf[5], buf[6]) * 3
              <=> LE16(buf[5], buf[6]) \in ExactProductRange

\* The burst with the words -10922, 10922 and -1, decoded.
C5_Witness ==
    /\ AfterDecode /\ ack
    /\ buf = << 86, 213, 170, 42, 255, 255 >>
    /\ magData = << 32766, 32766, -3 >>

\* C6: when the burst of a read is acknowledged, the three decoded axes are in
\* the caller's sample before the re-arm goes out; the call then issues exactly
\* one write of 0x01 to CNTRL1, after the data read, and returns true.
C6_ReadAckRearms ==
    /\ (lastOp = "read" /\ pc = "read_rearm") =>
          (ack /\ opTrace = << ReadData >> /\ magData = DecodeSample(buf))
    /\ (Done("read") /\ ack) =>
          (ret = "true" /\ opTrace = << ReadData, WriteMode >>)

\* A completed read of the specification's scenario burst.
C6_Witness ==
    Done("read") /\ ack /\ ret = "true" /\ magData = << -48, 96, 144 >>

IsWriteStep ==
    /\ Len(opTrace') = Len(opTrace) + 1
    /\ opTrace'[Len(opTrace')].op = "i2cWrite"

\* C7: the outcome of a register write reaches nobody. Every step that issues
\* a register write leaves the samples, the record, the configuration and the
\* interrupt state as they were and continues at the statement, with the result,
\* that the state before the write fixes, whatever the write's acknowledge
\* (so two runs that differ only in those acknowledges stay in step). A call
\* reports failure only as detect returning false or as read returning false
\* after a NACK of the data burst; init returns nothing.
C7_WriteOutcomeIgnored ==
    /\ [][ IsWriteStep =>
             /\ UNCHANGED << magData, mag, ist8310Config, intIO, exti, magADC, ack,
                             sig, status, lastOp, readFor, isr, dbg, build >>
             /\ IF pc = "read_rearm" /\ readFor = "caller"
                  THEN pc' = "idle" /\ ret' = "true"
                  ELSE pc' = "init" /\ ix' = ix + 1 /\ ret' = ret ]_vars
    /\ [](ret = "false" => (lastOp = "detect" \/ (lastOp = "read" /\ ~ack)))
    /\ [](lastOp = "init" => ret \in {"pending", "void"})

\* A read that returned true although its re-arm write was not acknowledged.
C7_Witness == Done("read") /\ wnack /\ ret = "true"

\* C8: when the stored configuration names no interrupt line, init makes no
\* interrupt-related call: no IOGetByTag, IORead, EXTIHandlerInit, EXTIConfig,
\* EXTIEnable.
C8_NoLineNoIrqCalls ==
    (lastOp = "init" /\ IntTagOf(ist8310Config) = 0) =>
        (~Has(opTrace, IsIrqCall) /\ pc \notin {"irq_read", "irq_hinit", "irq_cfg", "irq_en"})

\* A completed init of a build with interrupt support, with no line configured.
C8_Witness ==
    Done("init") /\ ret = "void" /\ build.signal /\ IntTagOf(ist8310Config) = 0

IsIORead(e) == e.op = "IORead"
LineReadLow == Has(opTrace, IsIORead) /\ status = 0

\* C9: with the idle-high check compiled in and a line configured, an init that
\* reads the line low makes no EXTIHandlerInit, EXTIConfig or EXTIEnable call
\* and leaves the EXTI state as it was; the EXTI state changes only inside an
\* init that did not read the line low. The bus transactions and delays of an
\* init that read the line are the ones the discard read's outcome fixes,
\* whether the line read low or high.
C9_LowLineSkipsExti ==
    /\ []((lastOp = "init" /\ build.ensureHigh /\ IntTagOf(ist8310Config) # 0
             /\ LineReadLow) =>
            (~Has(opTrace, IsExtiCall) /\ pc \in {"init", "idle"}))
    /\ []((Done("init") /\ Has(opTrace, IsIORead)) =>
            SelectSeq(opTrace, IsBusOrDelay) =
                IF ack THEN InitSeqAcked ELSE InitSeqClaimed)
    /\ [][ exti' # exti =>
             (lastOp = "init" /\ (build.ensureHigh => status # 0)) ]_vars

\* A completed init that read the line low, after an acknowledged discard read,
\* with the line still not enabled.
C9_Witness ==
    /\ Done("init") /\ build.ensureHigh /\ IntTagOf(ist8310Config) # 0
    /\ LineReadLow /\ ack /\ ~exti.enabled /\ ~exti.handler

\* C10: in a production build (no DEBUG_MAG_DATA_READY_INTERRUPT) the entry and
\* the run of the interrupt handler, at whatever point of detect, init or read,
\* change nothing: no platform call is issued, no read is started, and the
\* configuration, the record, the samples, the position and the results of the
\* main thread stay as they are.
C10_HandlerInert ==
    [][ (isr' # isr /\ ~build.debug) =>
          UNCHANGED << build, ist8310Config, intIO, exti, mag, magData, pc, ix,
                       readFor, ack, sig, buf, status, magADC, opTrace, lastOp, ret,
                       wnack, dbg >> ]_vars

\* The handler running in a production build between the burst read of a read
\* call and its check.
C10_Witness == isr = "running" /\ ~build.debug /\ pc = "read_chk" /\ lastOp = "read"

\* C11 as claimed: a detect that returns false leaves the process-wide
\* configuration pointer as it was before the call, and one that returns true
\* leaves it equal to the configuration passed in.
C11_Original ==
    Done("detect") =>
        /\ ret = "false" => ist8310Config = hist.cfgBefore
        /\ ret = "true" => ist8310Config = cfgArg

\* C11: ist8310Detect stores the caller's configuration as its first statement,
\* before the bus is read: from the entry of a detect call on, and after it
\* returned, true or false, the pointer equals the configuration passed in.
C11_DetectStoresAlways ==
    lastOp = "detect" => (ist8310Config = cfgArg /\ cfgArg \in ConfigPtrs)

\* A detect that failed after an earlier one had succeeded, and that left
\* another configuration than the one stored before it.
C11_Witness ==
    /\ Done("detect") /\ ret = "false" /\ hist.detected
    /\ hist.cfgBefore # 0 /\ ist8310Config # hist.cfgBefore

\* C12: a detect call, whatever its outcome, issues exactly one bus
\* transaction, the one-byte read of register 0x00 at address 0x0C; it writes
\* no register and makes no interrupt-configuration call (the line handle and
\* the EXTI state stay as they are).
C12_DetectOneTransaction ==
    /\ [](lastOp = "detect" =>
            opTrace = IF pc = "det_i2c" THEN << >>
                      ELSE << [op |-> "i2cRead", dev |-> 12, a |-> 0, b |-> 1, s |-> ""] >>)
    /\ [][ lastOp' = "detect" => (exti' = exti /\ intIO' = intIO) ]_vars

\* A detect whose read was not acknowledged, called after an init had enabled
\* the interrupt.
C12_Witness == Done("detect") /\ ~ack /\ ret = "false" /\ exti.enabled

ModeWriteRecord == [op |-> "i2cWrite", dev |-> 12, a |-> 10, b |-> 1, s |-> ""]

\* C13: after ist8310Init has returned, and after every ist8310Read that
\* returned true, the most recent bus transaction is the write of
\* single-measurement mode to CNTRL1; and whenever a data burst read is about
\* to be issued, every earlier acknowledged burst has been followed by such a
\* write.
C13_RearmProtocol ==
    /\ [](( Done("init") \/ (Done("read") /\ ret = "true") ) =>
            hist.lastBus = ModeWriteRecord)
    /\ [](pc = "read_i2c" => ~hist.pendingRearm)
    /\ [](hist.pendingRearm => pc \in {"read_chk", "read_rearm"})

\* A read about to issue its burst after an earlier read had stored a sample.
C13_Witness ==
    /\ pc = "read_i2c" /\ lastOp = "read" /\ magData = << -48, 96, 144 >>
    /\ hist.lastBus = ModeWriteRecord

IrqUsable == IntTagOf(ist8310Config) # 0 /\ (~build.ensureHigh \/ status # 0)
ExtiSetupRecords ==
    << [op |-> "EXTIHandlerInit", dev |-> 0, a |-> 0, b |-> 0, s |-> "ist8310_extiHandler"],
       [op |-> "EXTIConfig", dev |-> 0, a |-> intIO, b |-> 0,
        s |-> "NVIC_PRIO_MAG_INT_EXTI,EXTI_Trigger_Rising"],
       [op |-> "EXTIEnable", dev |-> 0, a |-> intIO, b |-> 1, s |-> ""] >>
InitBusSeq == IF ack THEN InitSeqAcked ELSE InitSeqClaimed

\* C14 as claimed: whenever a line is configured and the idle-high check is
\* disabled or reads high, init performs handler initialisation, rising-edge
\* EXTI configuration and EXTI enable, in that order.
C14_Original ==
    (Done("init") /\ IrqUsable) => SelectSeq(opTrace, IsExtiCall) = ExtiSetupRecords

\* C14: in a build with USE_MAG_DATA_READY_SIGNAL, when a line is configured
\* and the idle-high check is disabled or reads high, init ends with the line
\* lookup, the level read if compiled, then EXTIHandlerInit, the rising-edge
\* EXTIConfig at NVIC_PRIO_MAG_INT_EXTI and EXTIEnable, all after its last
\* register write and whatever the bus outcomes; EXTI calls occur in init
\* only, the EXTI state changes only after that init's final re-arm write, and
\* the handler runs only once the line is enabled.
C14_IrqSetupOrder ==
    /\ []((Done("init") /\ build.signal /\ IrqUsable) =>
            opTrace = InitBusSeq
                      \o << EvIOGetByTag(IntTagOf(ist8310Config)) >>
                      \o (IF build.ensureHigh THEN << EvIORead(intIO) >> ELSE << >>)
                      \o ExtiSetupRecords)
    /\ [](Has(opTrace, IsExtiCall) => lastOp = "init")
    /\ [][ exti' # exti =>
             /\ lastOp = "init" /\ pc \in {"irq_hinit", "irq_cfg", "irq_en"}
             /\ hist.lastBus = ModeWriteRecord
             /\ SelectSeq(opTrace, IsBusOrDelay) = InitBusSeq ]_vars
    /\ [](isr = "running" => (exti.enabled /\ exti.handler /\ exti.configured))

\* A completed init that enabled the line although its discard read and one of
\* its register writes were not acknowledged.
C14_Witness ==
    Done("init") /\ build.signal /\ IrqUsable /\ ~ack /\ wnack /\ exti.enabled

\* C15: the slots hold this driver's functions exactly when some detect has
\* returned true; a record that started empty is populated exactly then; once
\* the slots hold this driver's functions no step (a failing detect, init,
\* read, the interrupt handler) changes them; and init and read run, through
\* the record, only after a detect has returned true.
C15_SlotsTrackDetect ==
    /\ [](mag = ThisMag <=> hist.detected)
    /\ [](mag # OtherMag =>
            /\ mag.init # "NULL" <=> hist.detected
            /\ mag.read # "NULL" <=> hist.detected)
    /\ [][ mag = ThisMag => mag' = ThisMag ]_vars
    /\ [](lastOp \in {"init", "read"} => hist.detected)

\* A detect that failed after an earlier one had populated the record.
C15_Witness == Done("detect") /\ ret = "false" /\ ~ack /\ mag = ThisMag /\ hist.detected

\* C16: the process-wide configuration pointer changes only at the entry of
\* ist8310Detect; during and after every init and read it is what it was when
\* that call was entered, which is what the last detect was given.
C16_ConfigWrittenByDetectOnly ==
    /\ [][ ist8310Config' # ist8310Config => (pc = "idle" /\ pc' = "det_i2c") ]_vars
    /\ [](lastOp \in {"init", "read"} =>
            (ist8310Config = hist.cfgBefore /\ ist8310Config = cfgArg))

\* A read completed after an init that configured and enabled the interrupt.
C16_Witness ==
    Done("read") /\ ret = "true" /\ exti.enabled /\ ist8310Config = 2

DataReadRecord == [op |-> "i2cRead", dev |-> 12, a |-> 3, b |-> 6, s |-> ""]

\* C17: a read whose burst is not acknowledged issues that one bus transaction
\* and no other: no re-arm write, no second data read; so does the discard read
\* of init, after which init goes on with its own statements.
C17_NackReadOneTransaction ==
    /\ (Done("read") /\ ~ack) => (opTrace = << DataReadRecord >> /\ ret = "false")
    /\ (lastOp = "read" /\ ~ack) => pc \in {"read_i2c", "read_chk", "idle"}
    /\ (lastOp = "init" /\ pc = "init" /\ ix = 6 /\ ~ack) =>
          opTrace = << WriteMode, Settle, WriteAvg, Settle, DataReadRecord >>

\* A failed read: the last transaction on the bus is its data read.
C17_Witness ==
    Done("read") /\ ~ack /\ ret = "false" /\ hist.lastBus = DataReadRecord /\ ~wnack

InitUpToRead == << WriteMode, Settle, WriteAvg, Settle, ReadData >>

\* C18: the discard read of init acts as a caller's read does: acknowledged, it
\* decodes into init's own array and writes single-measurement mode to CNTRL1
\* right after the data read, before the third delay; not acknowledged, it
\* writes nothing. Either way init goes on with the third delay and the final
\* re-arm write. No step of init changes the caller's sample, and init's array
\* is gone when init returns.
C18_DiscardReadLikeRead ==
    /\ []((lastOp = "init" /\ pc = "init" /\ ix = 6) =>
            IF ack
              THEN /\ opTrace = InitUpToRead \o << ModeWriteRecord >>
                   /\ magADC \in { DecodeSample(b) : b \in DataBufs }
              ELSE /\ opTrace = InitUpToRead
                   /\ magADC = << >>)
    /\ []((lastOp = "init" /\ pc = "init" /\ ix = 8) =>
            opTrace = InitUpToRead
                      \o (IF ack THEN << ModeWriteRecord >> ELSE << >>)
                      \o << Settle, ModeWriteRecord >>)
    /\ [](Done("init") => magADC = << >>)
    /\ [][ lastOp' = "init" => magData' = magData ]_vars

\* Init just after an acknowledged discard read of the burst -32768, -1, 10923,
\* with the caller's sample of an earlier read untouched.
C18_Witness ==
    /\ lastOp = "init" /\ pc = "init" /\ ix = 6 /\ ack
    /\ magADC = << -32768, -3, -32767 >>
    /\ magData = << -48, 96, 144 >>

Product(i) ==
    IF i = 1 THEN (-LE16(buf[1], buf[2])) * 3
    ELSE IF i = 2 THEN LE16(buf[3], buf[4]) * 3
    ELSE LE16(buf[5], buf[6]) * 3
RawWord(i) == LE16(buf[2 * i - 1], buf[2 * i])

\* C19: each stored axis is the exact product (negated for X) reduced modulo
\* 2^16 into -32768..32767: it is the product when the raw word lies in
\* -10922..10922, and otherwise differs from it by a non-zero multiple of 65536.
C19_StoredAxisIsProductMod65536 ==
    AfterDecode =>
        \A i \in 1..3 :
            /\ magData[i] \in -32768 .. 32767
            /\ (magData[i] - Product(i)) % 65536 = 0
            /\ RawWord(i) \in ExactProductRange => magData[i] = Product(i)
            /\ RawWord(i) \notin ExactProductRange => magData[i] # Product(i)

\* The burst with the words -32768, 10923 and -10923, decoded: the products
\* 98304, 32769 and -32769 wrapped.
C19_Witness ==
    /\ AfterDecode /\ ack
    /\ buf = << 0, 128, 171, 42, 85, 213 >>
    /\ magData = << -32768, -32767, 32767 >>

====
